---- MODULE Spec2Model ----
(***************************************************************************)
(* A model of the MyGrammarly backend (src/app.py): the match classifier,  *)
(* the text metrics, and the /api/check, /api/languages and /health        *)
(* handlers running on the threaded Flask server over the shared cache of  *)
(* LanguageTool instances.                                                 *)
(*                                                                         *)
(* Python strings are sequences of one-character strings, so that lower(), *)
(* 'kw in s' and the regular expressions are computed character by         *)
(* character. Confidences are in hundredths (0.95 is 95).                  *)
(***************************************************************************)
EXTENDS Integers, Sequences, FiniteSets, TLC

VARIABLES
    \* classifier harness: one call of enhance_match_classification
    ruleId, ruleIssueType, classification,
    \* metrics harness: one call of calculate_text_metrics
    text, metrics,
    \* server: the shared cache, the engine's history, one record per thread
    tools_by_language, instances, engine_calls, pc, req, tool, matches, resp

classifierVars == <<ruleId, ruleIssueType, classification>>
metricsVars == <<text, metrics>>
serverVars == <<tools_by_language, instances, engine_calls, pc, req, tool, matches, resp>>
vars == <<ruleId, ruleIssueType, classification, text, metrics,
          tools_by_language, instances, engine_calls, pc, req, tool, matches, resp>>

-----------------------------------------------------------------------------
(* Strings                                                                 *)

\* Python's None where a string is expected: a one-element sequence whose
\* element is no character, so that it is no string and contains no keyword.
None == <<"None">>

EmptyStr == <<>>

UpperChars == <<"A","B","C","D","E","F","G","H","I","J","K","L","M","N","O","P","Q","R","S","T","U","V","W","X","Y","Z">>
LowerChars == <<"a","b","c","d","e","f","g","h","i","j","k","l","m","n","o","p","q","r","s","t","u","v","w","x","y","z">>
DigitChars == <<"0","1","2","3","4","5","6","7","8","9">>

Range(s) == {s[i] : i \in 1..Len(s)}

\* str.lower() on one character
LowerChar(c) ==
    IF \E i \in 1..Len(UpperChars) : UpperChars[i] = c
    THEN LowerChars[CHOOSE i \in 1..Len(UpperChars) : UpperChars[i] = c]
    ELSE c

\* str.lower()
Lower(s) == [i \in 1..Len(s) |-> LowerChar(s[i])]

\* (x or '')
OrEmpty(s) == IF s = None \/ s = EmptyStr THEN EmptyStr ELSE s

\* kw in s
Contains(s, kw) ==
    \E i \in 1..(Len(s) - Len(kw) + 1) : SubSeq(s, i, i + Len(kw) - 1) = kw

kw_misspelling == <<"m","i","s","s","p","e","l","l","i","n","g">>
kw_spell == <<"s","p","e","l","l">>
kw_morfologic == <<"m","o","r","f","o","l","o","g","i","c">>
kw_hunspell == <<"h","u","n","s","p","e","l","l">>
kw_grammar == <<"g","r","a","m","m","a","r">>
kw_agreement == <<"a","g","r","e","e","m","e","n","t">>
kw_verb == <<"v","e","r","b">>
kw_tense == <<"t","e","n","s","e">>
kw_punct == <<"p","u","n","c","t">>
kw_comma == <<"c","o","m","m","a">>
kw_apostrophe == <<"a","p","o","s","t","r","o","p","h","e">>
kw_style == <<"s","t","y","l","e">>
kw_redundancy == <<"r","e","d","u","n","d","a","n","c","y">>
kw_wordiness == <<"w","o","r","d","i","n","e","s","s">>

-----------------------------------------------------------------------------
(* enhance_match_classification                                            *)

Classification(cat, conf, sev, expl, it) ==
    [category |-> cat, confidence |-> conf, severity |-> sev,
     explanation |-> expl, originalIssueType |-> it]

\* The if/elif chain with the grammar branch tested before the spelling one.
enhance_grammar_first(rid, itype) ==
    LET rule_id == Lower(OrEmpty(rid))
        issue_type == Lower(OrEmpty(itype))
    IN  IF \/ issue_type = kw_grammar
           \/ Contains(rule_id, kw_grammar)
           \/ Contains(rule_id, kw_agreement)
           \/ Contains(rule_id, kw_verb)
           \/ Contains(rule_id, kw_tense)
        THEN Classification("grammar", 90, "high",
                            "Grammatical error that affects meaning", issue_type)
        ELSE IF \/ issue_type = kw_misspelling
                \/ Contains(rule_id, kw_spell)
                \/ Contains(rule_id, kw_morfologic)
                \/ Contains(rule_id, kw_hunspell)
        THEN Classification("spelling", 95, "high",
                            "Likely misspelled word or typographical error", issue_type)
        ELSE Classification("other", 50, "medium",
                            "General writing suggestion", issue_type)

\* The chain with the rule id tested as the engine gave it, not lower-cased.
enhance_no_lower(rid, itype) ==
    LET rule_id == OrEmpty(rid)
        issue_type == Lower(OrEmpty(itype))
    IN  IF \/ issue_type = kw_misspelling
           \/ Contains(rule_id, kw_spell)
           \/ Contains(rule_id, kw_morfologic)
           \/ Contains(rule_id, kw_hunspell)
        THEN Classification("spelling", 95, "high",
                            "Likely misspelled word or typographical error", issue_type)
        ELSE Classification("other", 50, "medium",
                            "General writing suggestion", issue_type)

\* rid is match.ruleId and itype is getattr(match, 'ruleIssueType', ''),
\* either of them possibly None.
enhance_match_classification(rid, itype) ==
    LET rule_id == Lower(OrEmpty(rid))
        issue_type == Lower(OrEmpty(itype))
    IN  IF \/ issue_type = kw_misspelling
           \/ Contains(rule_id, kw_spell)
           \/ Contains(rule_id, kw_morfologic)
           \/ Contains(rule_id, kw_hunspell)
        THEN Classification("spelling", 95, "high",
                            "Likely misspelled word or typographical error", issue_type)
        ELSE IF \/ issue_type = kw_grammar
                \/ Contains(rule_id, kw_grammar)
                \/ Contains(rule_id, kw_agreement)
                \/ Contains(rule_id, kw_verb)
                \/ Contains(rule_id, kw_tense)
        THEN Classification("grammar", 90, "high",
                            "Grammatical error that affects meaning", issue_type)
        ELSE IF \/ Contains(rule_id, kw_punct)
                \/ Contains(rule_id, kw_comma)
                \/ Contains(rule_id, kw_apostrophe)
        THEN Classification("punctuation", 85, "medium",
                            "Punctuation rule or convention", issue_type)
        ELSE IF \/ issue_type = kw_style
                \/ Contains(rule_id, kw_style)
                \/ Contains(rule_id, kw_redundancy)
                \/ Contains(rule_id, kw_wordiness)
        THEN Classification("style", 70, "low",
                            "Style suggestion for improved readability", issue_type)
        ELSE Classification("other", 50, "medium",
                            "General writing suggestion", issue_type)

-----------------------------------------------------------------------------
(* The classifier's inputs: rule ids built from fragments of LanguageTool  *)
(* rule names, in several spellings of case, and the engine's issue types. *)

MaxFrags == 2

frag_SPELL == <<"S","P","E","L","L">>
frag_Hunspell == <<"H","u","n","s","p","e","l","l">>
frag_MORFOLOGIK == <<"M","O","R","F","O","L","O","G","I","K">>
frag_Morfologic == <<"M","o","r","f","o","l","o","g","i","c">>
frag_GRAMMAR == <<"G","R","A","M","M","A","R">>
frag_AGREEMENT == <<"A","G","R","E","E","M","E","N","T">>
frag_Verb == <<"V","e","r","b">>
frag_TENSE == <<"T","E","N","S","E">>
frag_PUNCT == <<"P","U","N","C","T">>
frag_COMMA == <<"C","O","M","M","A">>
frag_Apostrophe == <<"A","p","o","s","t","r","o","p","h","e">>
frag_STYLE == <<"S","T","Y","L","E">>
frag_REDUNDANCY == <<"R","E","D","U","N","D","A","N","C","Y">>
frag_Wordiness == <<"W","o","r","d","i","n","e","s","s">>
frag_RULE == <<"_","R","U","L","E","_">>
frag_SPEL == <<"S","P","E","L">>

Frags ==
    {frag_SPELL, frag_Hunspell, frag_MORFOLOGIK, frag_Morfologic, frag_GRAMMAR,
     frag_AGREEMENT, frag_Verb, frag_TENSE, frag_PUNCT, frag_COMMA,
     frag_Apostrophe, frag_STYLE, frag_REDUNDANCY, frag_Wordiness, frag_RULE,
     frag_SPEL}

RECURSIVE FragSeqs(_)
FragSeqs(n) ==
    IF n = 0 THEN {EmptyStr}
    ELSE LET prev == FragSeqs(n - 1)
         IN  prev \cup {p \o f : p \in prev, f \in Frags}

RuleIds == FragSeqs(MaxFrags) \cup {None}

it_Misspelling == <<"M","i","s","s","p","e","l","l","i","n","g">>
it_spelling == <<"s","p","e","l","l","i","n","g">>
it_GRAMMAR == <<"G","R","A","M","M","A","R">>
it_typographical == <<"t","y","p","o","g","r","a","p","h","i","c","a","l">>
it_uncategorized == <<"u","n","c","a","t","e","g","o","r","i","z","e","d">>

IssueTypes ==
    {None, EmptyStr, kw_misspelling, it_Misspelling, it_spelling, kw_grammar,
     it_GRAMMAR, kw_style, it_typographical, it_uncategorized}

NoClassification == [category |-> "none"]

Classify ==
    /\ classification = NoClassification
    /\ classification' = enhance_match_classification(ruleId, ruleIssueType)
    /\ UNCHANGED <<ruleId, ruleIssueType, metricsVars, serverVars>>

-----------------------------------------------------------------------------
(* calculate_text_metrics                                                  *)

IsWordChar(c) == c \in Range(UpperChars) \cup Range(LowerChars) \cup Range(DigitChars) \cup {"_"}
IsSpace(c) == c \in {" ", "\n", "\t"}
IsTerminator(c) == c \in {".", "!", "?"}

WordAt(s, i) == i >= 1 /\ i <= Len(s) /\ IsWordChar(s[i])

\* \b between s[i-1] and s[i]
WordBoundary(s, i) == WordAt(s, i - 1) # WordAt(s, i)

Maximum(S) == CHOOSE x \in S : \A y \in S : y <= x

\* Where the match of a pattern that starts at s[i] ends, 0 when there is
\* none: the greedy quantifier takes the longest run the rest of the pattern
\* accepts. "word" is \b\w+\b, "complex" is \b\w{7,}\b, "sentence" is [.!?]+.
MatchEnd(pat, s, i) ==
    LET ends ==
            IF pat = "sentence"
            THEN {e \in i..Len(s) : \A k \in i..e : IsTerminator(s[k])}
            ELSE {e \in i..Len(s) :
                    /\ WordBoundary(s, i)
                    /\ \A k \in i..e : IsWordChar(s[k])
                    /\ WordBoundary(s, e + 1)
                    /\ (pat = "complex" => e - i + 1 >= 7)}
    IN  IF ends = {} THEN 0 ELSE Maximum(ends)

\* len(re.findall(pat, s)), scanning from s[i]: the matches do not overlap
RECURSIVE CountMatches(_, _, _)
CountMatches(pat, s, i) ==
    IF i > Len(s) THEN 0
    ELSE LET e == MatchEnd(pat, s, i)
         IN  IF e = 0 THEN CountMatches(pat, s, i + 1)
             ELSE 1 + CountMatches(pat, s, e + 1)

WordCount(s) == CountMatches("word", s, 1)

\* One sentence for every terminator character, as [.!?] without the + counts.
SentenceCountPerChar(s) == Cardinality({i \in 1..Len(s) : IsTerminator(s[i])})

SentenceCount(s) == CountMatches("sentence", s, 1)

ComplexWordCount(s) == CountMatches("complex", s, 1)

\* text.split('\n\n'): the separators are found left to right
RECURSIVE SplitBlankLine(_)
SplitBlankLine(s) ==
    LET seps == {i \in 1..(Len(s) - 1) : s[i] = "\n" /\ s[i + 1] = "\n"}
    IN  IF seps = {} THEN <<s>>
        ELSE LET i == CHOOSE x \in seps : \A y \in seps : x <= y
             IN  <<SubSeq(s, 1, i - 1)>> \o SplitBlankLine(SubSeq(s, i + 2, Len(s)))

\* p.strip() is not empty
NonBlank(p) == \E i \in 1..Len(p) : ~IsSpace(p[i])

ParagraphCount(s) ==
    LET parts == SplitBlankLine(s)
    IN  Cardinality({i \in 1..Len(parts) : NonBlank(parts[i])})

\* len(re.sub(r'\s+', '', s))
NonSpaceLength(s) == Len(SelectSeq(s, LAMBDA c : ~IsSpace(c)))

Max(a, b) == IF a >= b THEN a ELSE b

\* round(n / d, 1) in tenths, d > 0: to the nearest tenth, a tie to the even one
RoundTenths(n, d) ==
    LET q == (10 * n) \div d
        r == (10 * n) % d
    IN  IF 2 * r < d THEN q
        ELSE IF 2 * r > d THEN q + 1
        ELSE IF q % 2 = 0 THEN q ELSE q + 1

\* A real number as the fraction num / den, den > 0.
Frac(n, d) == [num |-> n, den |-> d]

\* Only the lower clamp: max(0, readability_score).
ClampLowOnly(r) == IF r.num < 0 THEN Frac(0, 1) ELSE r

\* max(0, min(100, readability_score))
Clamp(r) ==
    LET m == IF 100 * r.den < r.num THEN Frac(100, 1) ELSE r
    IN  IF m.num < 0 THEN Frac(0, 1) ELSE m

\* 206.835 - 1.015 * (words / sentences) - 84.6 * (chars / words), over the
\* common denominator 1000 * sentences * words, for the fractions the
\* averages are with max(sentences, 1) = sentences and max(words, 1) = words.
RawReadability(words, sentences, chars) ==
    Frac(206835 * sentences * words - 1015 * words * words - 84600 * chars * sentences,
         1000 * sentences * words)

calculate_text_metrics(s) ==
    IF s = EmptyStr
    THEN [words |-> 0, sentences |-> 0, paragraphs |-> 0,
          avgWordsPerSentence |-> 0, avgCharsPerWord |-> 0,
          complexWords |-> 0, readabilityScore |-> Frac(0, 1)]
    ELSE LET words == WordCount(s)
             sentences == SentenceCount(s)
             paragraphs == ParagraphCount(s)
             chars == NonSpaceLength(s)
             complex_words == ComplexWordCount(s)
             readability_score ==
                 IF words > 0 /\ sentences > 0
                 THEN RawReadability(words, sentences, chars)
                 ELSE Frac(0, 1)
         IN  [words |-> words, sentences |-> sentences,
              paragraphs |-> Max(paragraphs, 1),
              avgWordsPerSentence |-> RoundTenths(words, Max(sentences, 1)),
              avgCharsPerWord |-> RoundTenths(chars, Max(words, 1)),
              complexWords |-> complex_words,
              readabilityScore |-> Clamp(readability_score)]

-----------------------------------------------------------------------------
(* The metrics' inputs: every text of up to MaxTokens tokens, the texts of *)
(* m one-letter words followed by n separate full stops, and the           *)
(* documented example.                                                     *)

MaxTokens == 3
MaxRep == 6

tok_word7 == <<"a","b","c","d","e","f","g">>
tok_blank == <<"\n","\n">>

Tokens == {<<"a">>, <<"B","1">>, tok_word7, <<" ">>, <<".">>, <<"?">>, <<",">>, tok_blank}

RECURSIVE TokenTexts(_)
TokenTexts(n) ==
    IF n = 0 THEN {EmptyStr}
    ELSE LET prev == TokenTexts(n - 1)
         IN  prev \cup {p \o t : p \in prev, t \in Tokens}

RECURSIVE Rep(_, _)
Rep(s, n) == IF n = 0 THEN EmptyStr ELSE s \o Rep(s, n - 1)

FamilyTexts == {Rep(<<"a"," ">>, m) \o Rep(<<"."," ">>, n) : m, n \in 0..MaxRep}

txt_Hello == <<"H","e","l","l","o"," ","w","o","r","l","d","."," ","H","o","w"," ","a","r","e"," ","y","o","u","?">>

Texts == TokenTexts(MaxTokens) \cup FamilyTexts \cup {txt_Hello}

NoMetrics == [words |-> -1]

ComputeMetrics ==
    /\ metrics = NoMetrics
    /\ metrics' = calculate_text_metrics(text)
    /\ UNCHANGED <<text, classifierVars, serverVars>>

-----------------------------------------------------------------------------
(* The server: requests, the engine's match records, responses             *)

\* TEXT_MAX_CHARS, read from the environment; the model runs with a small one
TEXT_MAX_CHARS == 2
DEFAULT_LANGUAGE == "en-US"

\* the cap on the engine's constructor and check calls in one run
MaxEngineCalls == 4

Threads == {"t1", "t2"}
Languages == {"en-US", "de-DE"}

\* JSON values that are no strings; like None, one-element sequences that are
\* no characters.
JsonNull == <<"null">>
JsonNumber == <<"number">>

GetAttr(m, f, default) == IF f \in DOMAIN m THEN m[f] ELSE default

Without(m, f) == [g \in DOMAIN m \ {f} |-> m[g]]

\* the "text" fields requests carry: strings of 0..TEXT_MAX_CHARS+1 characters
RECURSIVE TextOfLen(_)
TextOfLen(n) == IF n = 0 THEN EmptyStr ELSE TextOfLen(n - 1) \o (IF n % 2 = 1 THEN <<"a">> ELSE <<".">>)

RequestTexts == {JsonNull, JsonNumber} \cup {TextOfLen(n) : n \in 0..(TEXT_MAX_CHARS + 1)}

\* the "goals" fields: an object, as a set of <<key, value>>
SomeGoals == {<<"audience", "Academic">>, <<"tone", "Formal">>}

\* The bodies of the POST /api/check requests: a JSON object that has a
\* "text" or not, a "language" or not, "goals" or not (a body that is no
\* JSON object at all is read as the empty object).
CheckBodies ==
    LET full == {[text |-> x, language |-> "de-DE", goals |-> SomeGoals] : x \in RequestTexts}
    IN  UNION {{b, Without(b, "goals"), Without(b, "language"),
                Without(Without(b, "language"), "goals")} : b \in full}
        \cup {[language |-> "de-DE"], [goals |-> SomeGoals]}

NoRequest == [route |-> "none"]
HealthRequest == [route |-> "/health"]
LanguagesRequest == [route |-> "/api/languages"]
CheckRequest(body) == [route |-> "/api/check", body |-> body]
NoResponse == [status |-> 0]
NoTool == 0
NoMatches == <<>>

\* isinstance(text, str)
IsStr(x) == x \notin {JsonNull, JsonNumber, None}

\* data.get("text", "")
TextOf(r) == GetAttr(r, "text", EmptyStr)

\* data.get("language") or DEFAULT_LANGUAGE
LanguageOf(r) ==
    IF GetAttr(r, "language", "") = "" THEN DEFAULT_LANGUAGE ELSE r.language

\* data.get("goals", {})
GoalsOf(r) == GetAttr(r, "goals", {})

(* A match record of the engine is a record that may lack attributes.      *)

\* the attributes the loop body reads without a default: reading a missing
\* one raises AttributeError
RequiredAttrs == {"ruleId", "message", "offset", "errorLength", "context"}

\* {"value": replacement} for a string, else {"value": its value attribute or
\* its str()}. Suggestions are numbered: a string is [kind "str", s], an
\* object is [kind "obj", repr] with a value attribute or without (0: empty).
NormalizeReplacement(r) ==
    IF r.kind = "str" THEN [value |-> r.s]
    ELSE [value |-> IF "value" \in DOMAIN r /\ r.value # 0 THEN r.value ELSE r.repr]

NormalizeAll(rs) == [j \in 1..Len(rs) |-> NormalizeReplacement(rs[j])]

\* seq[:n]
Prefix(seq, n) == SubSeq(seq, 1, IF Len(seq) < n THEN Len(seq) ELSE n)

\* normalized_replacements without the [:5]
AllReplacements(seq) == seq

\* normalized_replacements[:5]
LimitReplacements(seq) == Prefix(seq, 5)

\* The body of the loop over the matches for one match: the result, or the
\* exception that the except clause swallows.
ProcessMatch(m) ==
    IF ~(RequiredAttrs \subseteq DOMAIN m) THEN [ok |-> FALSE]
    ELSE
    LET context_offset ==
            IF "offsetInContext" \in DOMAIN m /\ m.offsetInContext # 0
            THEN m.offsetInContext
            ELSE IF "contextOffset" \in DOMAIN m /\ m.contextOffset # 0
            THEN m.contextOffset
            ELSE 0
        raw_replacements == GetAttr(m, "replacements", <<>>)
        normalized_replacements == NormalizeAll(raw_replacements)
        classification_ ==
            enhance_match_classification(m.ruleId, GetAttr(m, "ruleIssueType", EmptyStr))
        rule == [id |-> m.ruleId,
                 issueType |-> GetAttr(m, "ruleIssueType", EmptyStr),
                 category |-> GetAttr(m, "category", "None")]
    IN  [ok |-> TRUE,
         result |->
            [message |-> m.message,
             shortMessage |-> GetAttr(m, "shortMessage", ""),
             offset |-> m.offset,
             length |-> m.errorLength,
             context |-> [text |-> m.context, offset |-> context_offset,
                          length |-> m.errorLength],
             rule |-> IF "url" \in DOMAIN m /\ m.url # ""
                      THEN [id |-> rule.id, issueType |-> rule.issueType,
                            category |-> rule.category, url |-> m.url]
                      ELSE rule,
             replacements |-> LimitReplacements(normalized_replacements),
             classification |-> classification_]]

\* The loop with a failing match ending the loop: the results up to it.
RECURSIVE ProcessUntilFailure(_)
ProcessUntilFailure(ms) ==
    IF ms = <<>> THEN <<>>
    ELSE LET r == ProcessMatch(Head(ms))
         IN  IF r.ok THEN <<r.result>> \o ProcessUntilFailure(Tail(ms)) ELSE <<>>

\* for match in matches: try: ... results.append(result) except Exception: log
RECURSIVE ProcessMatches(_)
ProcessMatches(ms) ==
    IF ms = <<>> THEN <<>>
    ELSE LET r == ProcessMatch(Head(ms))
         IN  (IF r.ok THEN <<r.result>> ELSE <<>>) \o ProcessMatches(Tail(ms))


(* What the engine returns                                                 *)

MaxRepl == 8
MaxMatches == 2

Replacement(j) ==
    IF j % 3 = 1 THEN [kind |-> "str", s |-> j]
    ELSE IF j % 3 = 2 THEN [kind |-> "obj", value |-> j, repr |-> 100 + j]
    ELSE IF j % 2 = 0 THEN [kind |-> "obj", value |-> 0, repr |-> j]
    ELSE [kind |-> "obj", repr |-> j]

match_rule_ids == <<frag_MORFOLOGIK \o frag_RULE, frag_COMMA \o frag_RULE \o frag_Verb, None>>
match_issue_types == <<kw_misspelling, EmptyStr, it_typographical, kw_style>>

\* a match with every attribute and k suggestions
FullMatch(k) ==
    [ruleId |-> match_rule_ids[((k \div 2) % 3) + 1],
     ruleIssueType |-> match_issue_types[(k % 4) + 1],
     message |-> "Possible mistake found",
     shortMessage |-> "Mistake",
     offset |-> k,
     errorLength |-> 1,
     context |-> "...context...",
     offsetInContext |-> k % 2,
     contextOffset |-> 3,
     replacements |-> [j \in 1..k |-> Replacement(j)],
     category |-> "TYPOS",
     url |-> IF k % 2 = 0 THEN "https://languagetool.org/rule" ELSE ""]

\* a match with the required attributes only
BareMatch ==
    [ruleId |-> frag_STYLE, message |-> "Style", offset |-> 0,
     errorLength |-> 2, context |-> "...context..."]

\* the numbers of suggestions of the engine's matches: none, fewer than 5,
\* exactly 5, and more
ReplCounts == {0, 3, 5, 6, MaxRepl}

MatchPool ==
    {FullMatch(k) : k \in ReplCounts}
    \cup {Without(FullMatch(MaxRepl), f) : f \in RequiredAttrs}
    \cup {BareMatch}

RECURSIVE BatchesUpTo(_)
BatchesUpTo(n) ==
    IF n = 0 THEN {<<>>}
    ELSE LET prev == BatchesUpTo(n - 1)
         IN  prev \cup {b \o <<m>> : b \in prev, m \in MatchPool}

AllBatches == BatchesUpTo(MaxMatches)

\* what the engine returns to the concurrent requests
FewBatches == {<<>>, <<FullMatch(1)>>}

-----------------------------------------------------------------------------
(* Responses                                                               *)

SupportedLanguages ==
    <<"en-US", "en-GB", "de-DE", "fr-FR", "es-ES", "it-IT", "pt-PT", "nl-NL", "pl-PL", "ru-RU">>

HealthResponse ==
    [status |-> 200, body |-> [status |-> "ok", service |-> "MyGrammarly API", version |-> "1.0.0"]]

LanguagesResponse == [status |-> 200, body |-> [languages |-> SupportedLanguages]]

InvalidTextResponse == [status |-> 400, body |-> [error |-> "Invalid 'text' - must be string"]]

TooLongResponse ==
    [status |-> 413, body |-> [error |-> "Text exceeds limit of {TEXT_MAX_CHARS} characters",
                               limit |-> TEXT_MAX_CHARS]]

InitFailedResponse ==
    [status |-> 500, body |-> [error |-> "Language tool initialization failed", detail |-> "str(e)"]]

CheckFailedResponse ==
    [status |-> 500, body |-> [error |-> "Text checking failed", detail |-> "str(e)"]]

CheckResponse(b, results) ==
    [status |-> 200,
     body |-> [matches |-> results,
               language |-> LanguageOf(b),
               textLength |-> Len(TextOf(b)),
               metrics |-> calculate_text_metrics(TextOf(b)),
               goals |-> GoalsOf(b)]]

\* len(text) >= TEXT_MAX_CHARS
TooLongInclusive(x) == Len(x) >= TEXT_MAX_CHARS

\* len(text) > TEXT_MAX_CHARS
TooLong(x) == Len(x) > TEXT_MAX_CHARS

-----------------------------------------------------------------------------
(* The handlers. A thread takes a request (idle), runs its handler and     *)
(* holds the response (done) until it is sent. get_tool is three steps of  *)
(* its thread, at "get_tool", "construct" and "store", with the other      *)
(* threads free to run between them: the server is started threaded and    *)
(* get_tool takes no lock.                                                 *)

Finish(t, r, response) ==
    /\ req' = [req EXCEPT ![t] = r]
    /\ resp' = [resp EXCEPT ![t] = response]
    /\ pc' = [pc EXCEPT ![t] = "done"]

\* A health check that asks get_tool for the default language's instance.
HealthWithTool(t) ==
    /\ pc[t] = "idle"
    /\ Finish(t, HealthRequest, HealthResponse)
    /\ IF tools_by_language[DEFAULT_LANGUAGE] = NoTool /\ Len(instances) < MaxEngineCalls
       THEN /\ instances' = Append(instances, DEFAULT_LANGUAGE)
            /\ tools_by_language' =
                   [tools_by_language EXCEPT ![DEFAULT_LANGUAGE] = Len(instances) + 1]
       ELSE UNCHANGED <<instances, tools_by_language>>
    /\ UNCHANGED <<classifierVars, metricsVars, engine_calls, tool, matches>>

\* GET /health
Health(t) ==
    /\ pc[t] = "idle"
    /\ Finish(t, HealthRequest, HealthResponse)
    /\ UNCHANGED <<classifierVars, metricsVars, tools_by_language, instances, engine_calls, tool, matches>>

\* GET /api/languages
ApiLanguages(t) ==
    /\ pc[t] = "idle"
    /\ Finish(t, LanguagesRequest, LanguagesResponse)
    /\ UNCHANGED <<classifierVars, metricsVars, tools_by_language, instances, engine_calls, tool, matches>>

\* POST /api/check, up to the call of get_tool: parsing and validation
ApiCheck(t) ==
    /\ pc[t] = "idle"
    /\ \E b \in CheckBodies :
        LET x == TextOf(b)
            r == CheckRequest(b)
        IN  IF ~IsStr(x) THEN Finish(t, r, InvalidTextResponse)
            ELSE IF Len(x) = 0 THEN Finish(t, r, CheckResponse(b, <<>>))
            ELSE IF TooLong(x) THEN Finish(t, r, TooLongResponse)
            ELSE /\ req' = [req EXCEPT ![t] = r]
                 /\ pc' = [pc EXCEPT ![t] = "get_tool"]
                 /\ UNCHANGED resp
    /\ UNCHANGED <<classifierVars, metricsVars, tools_by_language, instances, engine_calls, tool, matches>>

\* get_tool: if lang in _tools_by_language: return _tools_by_language[lang]
GetTool(t) ==
    /\ pc[t] = "get_tool"
    /\ LET lang == LanguageOf(req[t].body)
       IN  IF tools_by_language[lang] # NoTool
           THEN /\ tool' = [tool EXCEPT ![t] = tools_by_language[lang]]
                /\ pc' = [pc EXCEPT ![t] = "check"]
           ELSE /\ pc' = [pc EXCEPT ![t] = "construct"]
                /\ UNCHANGED tool
    /\ UNCHANGED <<classifierVars, metricsVars, tools_by_language, instances, engine_calls, req, matches, resp>>

\* get_tool: tool = LanguageTool(lang, config=...), and the configuration
\* for the goals, which changes nothing
Construct(t) ==
    /\ pc[t] = "construct"
    /\ engine_calls < MaxEngineCalls
    /\ engine_calls' = engine_calls + 1
    /\ instances' = Append(instances, LanguageOf(req[t].body))
    /\ tool' = [tool EXCEPT ![t] = Len(instances) + 1]
    /\ pc' = [pc EXCEPT ![t] = "store"]
    /\ UNCHANGED <<classifierVars, metricsVars, tools_by_language, req, matches, resp>>

\* get_tool: LanguageTool(...) raises; api_check answers 500
ConstructFails(t) ==
    /\ pc[t] = "construct"
    /\ engine_calls < MaxEngineCalls
    /\ engine_calls' = engine_calls + 1
    /\ resp' = [resp EXCEPT ![t] = InitFailedResponse]
    /\ pc' = [pc EXCEPT ![t] = "done"]
    /\ UNCHANGED <<classifierVars, metricsVars, tools_by_language, instances, req, tool, matches>>

\* get_tool: _tools_by_language[lang] = tool
CacheStore(t) ==
    /\ pc[t] = "store"
    /\ tools_by_language' = [tools_by_language EXCEPT ![LanguageOf(req[t].body)] = tool[t]]
    /\ pc' = [pc EXCEPT ![t] = "check"]
    /\ UNCHANGED <<classifierVars, metricsVars, instances, engine_calls, req, tool, matches, resp>>

\* matches = tool.check(text): the engine returns one of the batches of B
Check(t, B) ==
    /\ pc[t] = "check"
    /\ engine_calls < MaxEngineCalls
    /\ engine_calls' = engine_calls + 1
    /\ \E batch \in B : matches' = [matches EXCEPT ![t] = batch]
    /\ pc' = [pc EXCEPT ![t] = "enhance"]
    /\ UNCHANGED <<classifierVars, metricsVars, tools_by_language, instances, req, tool, resp>>

\* the loop over the matches, the metrics and the response
Enhance(t) ==
    /\ pc[t] = "enhance"
    /\ resp' = [resp EXCEPT ![t] = CheckResponse(req[t].body, ProcessMatches(matches[t]))]
    /\ pc' = [pc EXCEPT ![t] = "done"]
    /\ UNCHANGED <<classifierVars, metricsVars, tools_by_language, instances, engine_calls, req, tool, matches>>

\* tool.check(text) raises; api_check answers 500
CheckFails(t) ==
    /\ pc[t] = "check"
    /\ engine_calls < MaxEngineCalls
    /\ engine_calls' = engine_calls + 1
    /\ resp' = [resp EXCEPT ![t] = CheckFailedResponse]
    /\ pc' = [pc EXCEPT ![t] = "done"]
    /\ UNCHANGED <<classifierVars, metricsVars, tools_by_language, instances, req, tool, matches>>

\* the response is sent and the thread takes the next request
Return(t) ==
    /\ pc[t] = "done"
    /\ pc' = [pc EXCEPT ![t] = "idle"]
    /\ req' = [req EXCEPT ![t] = NoRequest]
    /\ resp' = [resp EXCEPT ![t] = NoResponse]
    /\ tool' = [tool EXCEPT ![t] = NoTool]
    /\ matches' = [matches EXCEPT ![t] = NoMatches]
    /\ UNCHANGED <<classifierVars, metricsVars, tools_by_language, instances, engine_calls>>

-----------------------------------------------------------------------------
(* Specifications                                                          *)

\* The threaded server: every interleaving of the threads' requests.
Init ==
    /\ ruleId = None /\ ruleIssueType = None /\ classification = NoClassification
    /\ text = EmptyStr /\ metrics = NoMetrics
    /\ tools_by_language = [l \in Languages |-> NoTool]
    /\ instances = <<>>
    /\ engine_calls = 0
    /\ pc = [t \in Threads |-> "idle"]
    /\ req = [t \in Threads |-> NoRequest]
    /\ tool = [t \in Threads |-> NoTool]
    /\ matches = [t \in Threads |-> NoMatches]
    /\ resp = [t \in Threads |-> NoResponse]

Next ==
    \E t \in Threads :
        \/ Health(t)
        \/ ApiLanguages(t)
        \/ ApiCheck(t)
        \/ GetTool(t)
        \/ Construct(t)
        \/ ConstructFails(t)
        \/ CacheStore(t)
        \/ Check(t, FewBatches)
        \/ Enhance(t)
        \/ CheckFails(t)
        \/ Return(t)

Spec == Init /\ [][Next]_vars

\* One request at a time, with every batch the engine may return.
NextBatch ==
    \E t \in {"t1"} :
        \/ Health(t)
        \/ ApiLanguages(t)
        \/ ApiCheck(t)
        \/ GetTool(t)
        \/ Construct(t)
        \/ ConstructFails(t)
        \/ CacheStore(t)
        \/ Check(t, AllBatches)
        \/ Enhance(t)
        \/ CheckFails(t)
        \/ Return(t)

SpecBatch == Init /\ [][NextBatch]_vars

\* One call of enhance_match_classification on every input.
InitClassify ==
    /\ ruleId \in RuleIds /\ ruleIssueType \in IssueTypes
    /\ classification = NoClassification
    /\ text = EmptyStr /\ metrics = NoMetrics
    /\ tools_by_language = [l \in Languages |-> NoTool]
    /\ instances = <<>>
    /\ engine_calls = 0
    /\ pc = [t \in Threads |-> "idle"]
    /\ req = [t \in Threads |-> NoRequest]
    /\ tool = [t \in Threads |-> NoTool]
    /\ matches = [t \in Threads |-> NoMatches]
    /\ resp = [t \in Threads |-> NoResponse]

NextClassify == Classify

SpecClassify == InitClassify /\ [][NextClassify]_vars

\* One call of calculate_text_metrics on every text.
InitMetrics ==
    /\ ruleId = None /\ ruleIssueType = None /\ classification = NoClassification
    /\ text \in Texts /\ metrics = NoMetrics
    /\ tools_by_language = [l \in Languages |-> NoTool]
    /\ instances = <<>>
    /\ engine_calls = 0
    /\ pc = [t \in Threads |-> "idle"]
    /\ req = [t \in Threads |-> NoRequest]
    /\ tool = [t \in Threads |-> NoTool]
    /\ matches = [t \in Threads |-> NoMatches]
    /\ resp = [t \in Threads |-> NoResponse]

NextMetrics == ComputeMetrics

SpecMetrics == InitMetrics /\ [][NextMetrics]_vars

-----------------------------------------------------------------------------
(* Properties of enhance_match_classification (SpecClassify)               *)

Classified == classification.category # "none"

LoweredRuleId == Lower(OrEmpty(ruleId))
LoweredIssueType == Lower(OrEmpty(ruleIssueType))

RuleIdHasAny(kws) == \E kw \in kws : Contains(LoweredRuleId, kw)

SpellingRule ==
    LoweredIssueType = kw_misspelling \/ RuleIdHasAny({kw_spell, kw_morfologic, kw_hunspell})
GrammarRule ==
    LoweredIssueType = kw_grammar \/ RuleIdHasAny({kw_grammar, kw_agreement, kw_verb, kw_tense})
PunctuationRule == RuleIdHasAny({kw_punct, kw_comma, kw_apostrophe})
StyleRule ==
    LoweredIssueType = kw_style \/ RuleIdHasAny({kw_style, kw_redundancy, kw_wordiness})

Classified_As(cat, conf, sev) ==
    /\ classification.category = cat
    /\ classification.confidence = conf
    /\ classification.severity = sev

\* C1: classify returns, for every (ruleId, issueType), the result of the
\* first rule of the chain spelling, grammar, punctuation, style that matches
\* the lower-cased pair, and other / 0.50 / medium when none does; it returns
\* a value on every input, None and the empty string included.
ClassifyFirstMatchWins ==
    LET r1 == SpellingRule
        r2 == GrammarRule
        r3 == PunctuationRule
        r4 == StyleRule
    IN  /\ ~Classified =>
              enhance_match_classification(ruleId, ruleIssueType).category
                  \in {"spelling", "grammar", "punctuation", "style", "other"}
        /\ Classified =>
              /\ r1 => Classified_As("spelling", 95, "high")
              /\ ~r1 /\ r2 => Classified_As("grammar", 90, "high")
              /\ ~r1 /\ ~r2 /\ r3 => Classified_As("punctuation", 85, "medium")
              /\ ~r1 /\ ~r2 /\ ~r3 /\ r4 => Classified_As("style", 70, "low")
              /\ ~r1 /\ ~r2 /\ ~r3 /\ ~r4 => Classified_As("other", 50, "medium")

\* C1 witness: a rule id that names a spelling and a grammar rule, with a
\* style issue type, classified as spelling.
ClassifiedSpellingOverGrammar ==
    /\ Classified
    /\ RuleIdHasAny({kw_spell}) /\ RuleIdHasAny({kw_grammar})
    /\ LoweredIssueType = kw_style
    /\ Classified_As("spelling", 95, "high")

\* C8 as stated: "spell" in the rule id or in the issue type, whatever the
\* case, gives spelling / 0.95 / high.
SpellAnywhereIsSpelling ==
    Classified /\ (Contains(LoweredRuleId, kw_spell) \/ Contains(LoweredIssueType, kw_spell))
        => Classified_As("spelling", 95, "high")

\* C8 amended: "spell" in the rule id, whatever the case, or an issue type
\* that is "misspelling", whatever the case, gives spelling / 0.95 / high.
SpellInRuleIdIsSpelling ==
    Classified /\ (Contains(LoweredRuleId, kw_spell) \/ LoweredIssueType = kw_misspelling)
        => Classified_As("spelling", 95, "high")

\* C8 witness: an upper-case SPELL in the rule id, with no issue type to
\* decide it, classified as spelling.
ClassifiedUpperCaseSpell ==
    /\ Classified
    /\ ruleId # None /\ Contains(ruleId, frag_SPELL) /\ ~Contains(ruleId, kw_spell)
    /\ LoweredIssueType = EmptyStr
    /\ Classified_As("spelling", 95, "high")

-----------------------------------------------------------------------------
(* Properties of calculate_text_metrics (SpecMetrics)                      *)

Computed == metrics.words # -1

\* the starts of the maximal runs of the characters of a class
RunStarts(InClass(_)) ==
    {i \in 1..Len(text) : InClass(text[i]) /\ (i = 1 \/ ~InClass(text[i - 1]))}

NonSpaceChars == Cardinality({i \in 1..Len(text) : ~IsSpace(text[i])})

\* C6: the readability score is in [0,100]; it is 0 without a word or
\* without a sentence, and else 206.835 - 1.015 * words/sentences
\* - 84.6 * chars/words clamped into [0,100].
ReadabilityClamped ==
    Computed =>
        LET score == metrics.readabilityScore
            w == metrics.words
            n == metrics.sentences
            rawNum == 206835 * n * w - 1015 * w * w - 84600 * NonSpaceChars * n
            rawDen == 1000 * n * w
        IN  /\ score.den > 0
            /\ 0 <= score.num /\ score.num <= 100 * score.den
            /\ (w = 0 \/ n = 0) => score.num = 0
            /\ (w > 0 /\ n > 0) =>
                  IF rawNum < 0 THEN score.num = 0
                  ELSE IF rawNum > 100 * rawDen THEN score.num = 100 * score.den
                  ELSE score = Frac(rawNum, rawDen)

\* C6 witness: a text whose raw score is above 100, reported as 100.
ReadabilityClampedFromAbove ==
    /\ Computed
    /\ metrics.words > 0 /\ metrics.sentences > 0
    /\ 206835 * metrics.sentences * metrics.words - 1015 * metrics.words * metrics.words
         - 84600 * NonSpaceChars * metrics.sentences
       > 100000 * metrics.sentences * metrics.words
    /\ metrics.readabilityScore.num = 100 * metrics.readabilityScore.den

CountsAreRuns ==
    /\ metrics.words = Cardinality(RunStarts(IsWordChar))
    /\ metrics.sentences = Cardinality(RunStarts(IsTerminator))

\* C7 as stated: the counts are the runs, the average is the exact quotient,
\* and the example has 6 words in 2 sentences, 3.0 words a sentence.
MetricsExampleSixWords ==
    Computed =>
        /\ CountsAreRuns
        /\ metrics.avgWordsPerSentence * Max(metrics.sentences, 1) = 10 * metrics.words
        /\ text = txt_Hello =>
              /\ metrics.words = 6
              /\ metrics.sentences = 2
              /\ metrics.avgWordsPerSentence = 30

\* C7 amended: the counts are the runs, the average is the quotient
\* words / max(sentences, 1) rounded to one decimal, and the example has 5
\* words in 2 sentences, 2.5 words a sentence.
MetricsExampleFiveWords ==
    Computed =>
        LET d == Max(metrics.sentences, 1)
            diff == 10 * metrics.words - metrics.avgWordsPerSentence * d
        IN  /\ CountsAreRuns
            /\ -d <= 2 * diff /\ 2 * diff <= d
            /\ text = txt_Hello =>
                  /\ metrics.words = 5
                  /\ metrics.sentences = 2
                  /\ metrics.avgWordsPerSentence = 25

\* C7 witness: the metrics of the example.
ExampleComputed ==
    /\ Computed
    /\ text = txt_Hello
    /\ metrics.words = 5 /\ metrics.sentences = 2 /\ metrics.avgWordsPerSentence = 25

-----------------------------------------------------------------------------
(* Properties of the loop over the matches (SpecBatch)                     *)

AnsweredCheck(t) ==
    pc[t] = "done" /\ req[t].route = "/api/check" /\ resp[t].status = 200

\* the matches of a batch whose attributes could all be read
Extracted(batch) == SelectSeq(batch, LAMBDA m : ProcessMatch(m).ok)

\* C2: when the engine has returned a batch, the request is answered 200 and
\* its matches are the results of exactly the matches whose attributes could
\* be read, each with its classification, in the engine's order.
BatchSurvivesFailingMatches ==
    [][\A t \in Threads :
          pc[t] = "enhance" /\ pc'[t] # "enhance" =>
              LET kept == Extracted(matches[t])
                  out == resp'[t].body.matches
              IN  /\ pc'[t] = "done"
                  /\ resp'[t].status = 200
                  /\ Len(out) = Len(kept)
                  /\ \A i \in 1..Len(kept) :
                        /\ out[i] = ProcessMatch(kept[i]).result
                        /\ out[i].classification =
                              enhance_match_classification(
                                  kept[i].ruleId, GetAttr(kept[i], "ruleIssueType", EmptyStr))]_vars

\* C2 witness: a response to a batch of a failing match followed by a valid
\* one, which holds the valid one.
AnsweredWithOneDropped ==
    \E t \in Threads :
        /\ AnsweredCheck(t)
        /\ Len(matches[t]) = 2
        /\ ~ProcessMatch(matches[t][1]).ok
        /\ ProcessMatch(matches[t][2]).ok
        /\ Len(resp[t].body.matches) = 1
        /\ resp[t].body.matches[1].offset = matches[t][2].offset

\* C3: the replacements of every match of a response are the first
\* min(5, n) of the n suggestions of its match record, in their order, each
\* as an entry with a value; never more than 5.
AtMostFiveReplacements ==
    \A t \in Threads :
        AnsweredCheck(t) =>
            LET kept == Extracted(matches[t])
                out == resp[t].body.matches
            IN  /\ Len(out) = Len(kept)
                /\ \A i \in 1..Len(out) :
                      LET raw == GetAttr(kept[i], "replacements", <<>>)
                          n == Len(raw)
                          got == out[i].replacements
                      IN  /\ Len(got) = (IF n < 5 THEN n ELSE 5)
                          /\ Len(got) <= 5
                          /\ \A j \in 1..Len(got) :
                                /\ DOMAIN got[j] = {"value"}
                                /\ got[j] = NormalizeReplacement(raw[j])

\* C3 witness: a response to a match with more than 5 suggestions, which
\* holds its first 5.
AnsweredWithFiveOfMore ==
    \E t \in Threads :
        /\ AnsweredCheck(t)
        /\ Len(matches[t]) >= 1
        /\ ProcessMatch(matches[t][1]).ok
        /\ Len(GetAttr(matches[t][1], "replacements", <<>>)) > 5
        /\ Len(resp[t].body.matches[1].replacements) = 5
        /\ resp[t].body.matches[1].replacements[5] = [value |-> 5]

-----------------------------------------------------------------------------
(* Properties of the server (Spec)                                         *)

InstancesOf(l) == {i \in 1..Len(instances) : instances[i] = l}

\* C4: at most one engine instance is ever constructed successfully for a
\* language.
OneInstancePerLanguage == \A l \in Languages : Cardinality(InstancesOf(l)) <= 1

ErrorResponses ==
    {InvalidTextResponse, TooLongResponse, InitFailedResponse, CheckFailedResponse}

IsErrorWithoutResult(r) ==
    /\ r.status >= 400
    /\ "error" \in DOMAIN r.body
    /\ "matches" \notin DOMAIN r.body

\* what C5's four cases have in common: an over-long text is answered 413,
\* a text of the maximum length is not; a failing constructor and a failing
\* check are answered 500, each with its message; the four error responses
\* carry no result and differ pairwise in status and message.
FatalFailuresAnswered(t) ==
    /\ pc[t] = "idle" /\ pc'[t] # "idle" /\ req'[t].route = "/api/check" =>
          LET b == req'[t].body
          IN  /\ IsStr(TextOf(b)) /\ Len(TextOf(b)) > TEXT_MAX_CHARS
                    => pc'[t] = "done" /\ resp'[t] = TooLongResponse
              /\ IsStr(TextOf(b)) /\ Len(TextOf(b)) = TEXT_MAX_CHARS
                    => pc'[t] = "get_tool" /\ resp'[t] = NoResponse
    /\ pc[t] = "construct" /\ pc'[t] = "done" => resp'[t] = InitFailedResponse
    /\ pc[t] = "check" /\ pc'[t] = "done" => resp'[t] = CheckFailedResponse
    /\ \A r \in ErrorResponses : IsErrorWithoutResult(r)
    /\ Cardinality({<<r.status, r.body.error>> : r \in ErrorResponses}) = Cardinality(ErrorResponses)
    /\ Cardinality(ErrorResponses) = 4

ValidatedCheck(r) ==
    /\ r.route = "/api/check"
    /\ IsStr(TextOf(r.body))
    /\ Len(TextOf(r.body)) > 0
    /\ Len(TextOf(r.body)) <= TEXT_MAX_CHARS

\* C9: a request answered in one step (health, languages, a check request
\* answered on its text alone) leaves the cache and the engine alone, and
\* every step that constructs or calls the engine or writes the cache is a
\* step of a check request that passed the validation.
EngineOnlyAfterValidation ==
    [][/\ \A t \in Threads :
            pc[t] = "idle" /\ pc'[t] = "done" =>
                UNCHANGED <<tools_by_language, instances, engine_calls>>
       /\ <<tools_by_language, instances, engine_calls>>' # <<tools_by_language, instances, engine_calls>> =>
            \E t \in Threads :
                /\ pc[t] \in {"construct", "store", "check"}
                /\ pc'[t] # pc[t]
                /\ ValidatedCheck(req[t])]_vars

\* C9 witness: a health check, and a check request answered for its
\* over-long text, both answered after the engine was in use.
EarlyAnswersBesideEngine ==
    \E t, u \in Threads :
        /\ pc[t] = "done" /\ req[t] = HealthRequest
        /\ pc[u] = "done" /\ resp[u] = TooLongResponse
        /\ engine_calls > 0
        /\ \E l \in Languages : tools_by_language[l] # NoTool

\* C10: the cache changes only by gaining an entry for a language that had
\* none, the entry being an instance constructed for that language; an entry
\* is never removed or replaced; a failed construction leaves the cache as
\* it is.
CacheOnlyGainsEntries ==
    [][/\ \A l \in Languages :
            /\ tools_by_language[l] # NoTool => tools_by_language'[l] = tools_by_language[l]
            /\ tools_by_language[l] = NoTool /\ tools_by_language'[l] # NoTool =>
                  tools_by_language'[l] \in InstancesOf(l)
       /\ \A t \in Threads :
            pc[t] = "construct" /\ pc'[t] = "done" => UNCHANGED tools_by_language]_vars

====
